---- MODULE Spec2Model ----
(***************************************************************************)
(* A model of deco.py: the wrapping utilities disable, decorator,          *)
(* countcalls, memo, n_ary and trace, the three decorated functions foo,   *)
(* bar and fib, and main().                                                *)
(*                                                                         *)
(* Python values are tagged records, function objects are records that     *)
(* carry their code, their metadata and their closure, and a call is       *)
(* evaluated by the recursive operator Call, which threads the mutable     *)
(* state of the module (the attributes cache, calls and depth, and the     *)
(* standard output) through the nested wrappers exactly in the order in    *)
(* which the Python code reads and writes it.                              *)
(***************************************************************************)
EXTENDS Integers, Sequences, FiniteSets, TLC

(***************************************************************************)
(* Bounds of the explored inputs.                                          *)
(***************************************************************************)
\* longest argument tuple a client passes to foo and bar
MaxArgs == 2
\* number of calls a client makes after importing the module
MaxCalls == 2
\* largest integer a client passes to fib
MaxN == 3
\* number of wrapping utilities stacked on one function
MaxStack == 3
\* longest argument list folded by n_ary_func on its own
MaxSeq == 3
\* longest argument tuple, and number of calls, of a client that calls foo
\* again and again
ShortArgs == 1
LongCalls == 3

(***************************************************************************)
(* Python values.                                                          *)
(***************************************************************************)
\* Every value is a record of the same shape: an int n has val = n, a str
\* has its characters in text, None and the empty list carry nothing.
Int_(n) == [kind |-> "int", val |-> n, text |-> ""]
Str(s) == [kind |-> "str", val |-> 0, text |-> s]
\* the list [], the unhashable value used here
EmptyList == [kind |-> "list", val |-> 0, text |-> ""]
None == [kind |-> "None", val |-> 0, text |-> ""]

\* n copies of a text in a row, none when n is not positive
RECURSIVE Copies(_, _)
Copies(text, n) == IF n <= 0 THEN "" ELSE text \o Copies(text, n - 1)

\* s * n for a str s and an int n
Repeat(s, n) == Str(Copies(s.text, n))

\* keyword arguments are a sequence of <<name, value>>; none:
NoKw == << >>

\* hash() of an int: the value itself, except that -1 is reserved by
\* CPython as the error code and hashes to -2 (the ints used here are far
\* below the modulus 2^61 - 1)
hash_int(n) == IF n = -1 THEN -2 ELSE n

\* hash() of an item of an argument tuple, as a value that is equal for two
\* items exactly when their hashes are: the hash of an int; for the empty
\* str 0, the hash of the int 0; for any other str and for None a hash of
\* their own (that of a str is drawn per process, that of None is taken
\* from its address, and neither meets the hash of a small int)
hash_item(v) ==
    IF v.kind = "int" THEN Int_(hash_int(v.val))
    ELSE IF v.kind = "str" /\ v.text = "" THEN Int_(0)
    ELSE v

\* the outcome of hash(args) for an argument tuple: a list makes the tuple
\* unhashable; otherwise CPython mixes the hashes of the items, and only
\* those, so the tuple's hash is represented by the tuple of item hashes
\* (two tuples with the same item hashes have the same hash, and the mixing
\* itself does not collide on the small tuples used)
hash(args) ==
    IF \E i \in DOMAIN args : args[i].kind = "list"
    THEN [exc |-> "TypeError: unhashable type: 'list'", h |-> << >>]
    ELSE [exc |-> "", h |-> [i \in DOMAIN args |-> hash_item(args[i])]]


(***************************************************************************)
(* Function objects.  code names the body that runs when the object is     *)
(* called, func and indent are the variables the body closes over.  Each   *)
(* call of countcalls or memo makes a wrapper object with an attribute     *)
(* calls or cache of its own, and each call of trace(indent) makes a       *)
(* real_decorator object with a depth of its own, shared by the wrappers   *)
(* it makes: id tells these objects apart.  It is "" for the objects that  *)
(* own no attribute.                                                       *)
(***************************************************************************)
\* def <name>(...): a function defined at module level
def_(name, doc) ==
    [code |-> name, __name__ |-> name, __doc__ |-> doc,
     func |-> << >>, indent |-> None, id |-> ""]

\* def wrapper(*args, **kwargs): the function object a decorator creates,
\* before functools.wraps touches it
new_wrapper(code, func, indent, id) ==
    [code |-> code, __name__ |-> "wrapper", __doc__ |-> None,
     func |-> func, indent |-> indent, id |-> id]

\* functools.wraps(wrapped)(wrapper): the wrapper takes over the name and
\* the docstring of the function it wraps (and its module, its qualified
\* name and its attributes, which are not kept here; __wrapped__ is func)
wraps(wrapped, wrapper) ==
    [wrapper EXCEPT !.__name__ = wrapped.__name__,
                    !.__doc__ = wrapped.__doc__]

disable(func) == wraps(func, new_wrapper("disable.wrapper", func, None, ""))

decorator(func) ==
    wraps(func, new_wrapper("decorator.wrapper", func, None, ""))

\* the wrapper object id that countcalls(func) makes; countcalls_init gives
\* it its attribute calls
countcalls(id, func) ==
    wraps(func, new_wrapper("countcalls.wrapper", func, None, id))

\* memo without @wraps(func) on its wrapper
memo_plain(id, func) == new_wrapper("memo.wrapper", func, None, id)

\* the wrapper object id that memo(func) makes; memo_init gives it its
\* attribute cache
memo(id, func) == wraps(func, new_wrapper("memo.wrapper", func, None, id))

n_ary(func) == wraps(func, new_wrapper("n_ary.wrapper", func, None, ""))

\* real_decorator(func), where real_decorator is the object id that a call
\* trace(indent) made: the wrapper reads and writes the depth of that
\* object, which real_decorator sets to 0
trace(id, indent, func) ==
    wraps(func, new_wrapper("trace.wrapper", func, indent, id))

foo_def == def_("foo", None)
bar_def == def_("bar", None)
fib_def == def_("fib", Str("Some doc"))

\* the module's objects are called after the global they end up in
foo == countcalls("foo", memo("foo", n_ary(foo_def)))
bar == countcalls("bar", memo("bar", n_ary(bar_def)))
fib == countcalls("fib", trace("fib", Str("####"), memo("fib", fib_def)))

\* a binary function f(x, y) given by its table t
lambda(t) ==
    [code |-> "lambda", __name__ |-> "f", __doc__ |-> None,
     func |-> t, indent |-> None, id |-> ""]

\* A client's functions, all decorated with one object t = trace("####"),
\* the object "t":
\*   @t def callee(n): return n
\*   @t def caller(n): return callee(n) if n <= 0 else caller(n - 1)
\*      def plain(n): return n
\*   @t def late(n): return t(plain)(n)
callee_def == def_("callee", None)
caller_def == def_("caller", None)
plain_def == def_("plain", None)
late_def == def_("late", None)

callee == trace("t", Str("####"), callee_def)
caller == trace("t", Str("####"), caller_def)
late == trace("t", Str("####"), late_def)

Traced == {"fib", "callee", "caller", "plain", "late"}

\* the functions that are no wrappers: the defs and the binary functions
Defs == {"foo", "bar", "lambda"} \cup Traced

IsDef(f) == f.code \in Defs

\* the name of the def at the bottom of a stack of wrappers
RECURSIVE owner(_)
owner(f) == IF IsDef(f) THEN f.code ELSE owner(f.func)


(***************************************************************************)
(* The machine state st that a call reads and writes:                      *)
(*   cache[o], calls[o]  the attributes wrapper.cache and wrapper.calls of *)
(*                       the memo wrapper o and of the countcalls wrapper  *)
(*                       o                                                 *)
(*   depth[d]            real_decorator.depth of the trace object d        *)
(*   stdout              the lines printed so far                          *)
(*   ret, exc            the value returned by the call just evaluated, or *)
(*                       the exception it raised ("" when it returned)     *)
(* and, for stating the properties (never read by the code):               *)
(*   invoked[o], raised[o]  invocations of o's countcalls wrapper begun,   *)
(*                       and ended by an exception                         *)
(*   runs[o]             per argument tuple, how often the function under  *)
(*                       o's memo wrapper has run to completion            *)
(*   firsts[o]           per argument tuple, what o's memo wrapper         *)
(*                       returned the first time                           *)
(*   same                every return of a memo wrapper so far equalled    *)
(*                       the first return for the same argument tuple      *)
(*   active, nest        trace wrapper calls in progress, and its value    *)
(*                       when each line of stdout was printed              *)
(*   binary              runs of a two-argument function body              *)
(*   traced, forwarded   invocations of a trace wrapper begun, and the     *)
(*                       calls of the wrapped function they made           *)
(*   own[o], ownnest     calls in progress of the trace wrapper of def o,  *)
(*                       and                                               *)
(*                       its value for the wrapper that printed, for each  *)
(*                       trace line of stdout                              *)
(*   steady              every wrapped function that returned to a trace   *)
(*                       wrapper left depth as it was when it was called   *)
(*   under, underexc     calls a memo wrapper made of the function under   *)
(*                       it, and the last exception such a call raised     *)
(***************************************************************************)
Raise(st, msg) == [st EXCEPT !.exc = msg, !.ret = None]

Return(st, v) == [st EXCEPT !.ret = v]

Raised(st) == st.exc # ""

\* m[k] = v on a dict m
Put(m, k, v) == [x \in DOMAIN m \cup {k} |-> IF x = k THEN v ELSE m[x]]

EmptyDict == [x \in {} |-> None]

\* what the decorators do besides making the wrapper: countcalls sets
\* wrapper.calls = 0 on its new wrapper id, memo sets wrapper.cache = {},
\* and real_decorator sets the depth of the trace object id to 0, each time
\* it decorates a function
countcalls_init(st, id) ==
    [st EXCEPT !.calls = Put(@, id, 0), !.invoked = Put(@, id, 0),
               !.raised = Put(@, id, 0)]

memo_init(st, id) ==
    [st EXCEPT !.cache = Put(@, id, EmptyDict), !.runs = Put(@, id, EmptyDict),
               !.firsts = Put(@, id, EmptyDict)]

real_decorator(st, id) == [st EXCEPT !.depth = Put(@, id, 0)]

\* print(*line): a printed line is the tuple of the values printed
print(st, line) ==
    [st EXCEPT !.stdout = Append(@, line), !.nest = Append(@, st.active)]

\* type(v).__name__
TypeName(v) == IF v.kind = "None" THEN "NoneType" ELSE v.kind

\* a + b: the sum of two ints, the concatenation of two strs or of two
\* lists (the only list is []), and a TypeError for any other pair, worded
\* by the left operand's type
add(st, a, b) ==
    IF a.kind = "int" /\ b.kind = "int" THEN Return(st, Int_(a.val + b.val))
    ELSE IF a.kind = "list" /\ b.kind = "list" THEN Return(st, EmptyList)
    ELSE IF a.kind = "str" /\ b.kind = "str"
    THEN Return(st, Str(a.text \o b.text))
    ELSE IF a.kind \in {"str", "list"}
    THEN Raise(st, "TypeError: can only concatenate " \o a.kind \o " (not \""
                       \o TypeName(b) \o "\") to " \o a.kind)
    ELSE Raise(st, "TypeError: unsupported operand type(s) for +: '"
                       \o TypeName(a) \o "' and '" \o TypeName(b) \o "'")

\* a * b: the product of two ints, a str or [] repeated an int number of
\* times, and a TypeError for any other pair
mul(st, a, b) ==
    IF a.kind = "int" /\ b.kind = "int" THEN Return(st, Int_(a.val * b.val))
    ELSE IF a.kind = "int" /\ b.kind = "str" THEN Return(st, Repeat(b, a.val))
    ELSE IF a.kind = "str" /\ b.kind = "int" THEN Return(st, Repeat(a, b.val))
    ELSE IF a.kind = "int" /\ b.kind = "list" THEN Return(st, EmptyList)
    ELSE IF a.kind = "list" /\ b.kind = "int" THEN Return(st, EmptyList)
    ELSE IF a.kind \in {"str", "list"}
    THEN Raise(st, "TypeError: can't multiply sequence by non-int of type '"
                       \o TypeName(b) \o "'")
    ELSE IF b.kind \in {"str", "list"}
    THEN Raise(st, "TypeError: can't multiply sequence by non-int of type '"
                       \o TypeName(a) \o "'")
    ELSE Raise(st, "TypeError: unsupported operand type(s) for *: '"
                       \o TypeName(a) \o "' and '" \o TypeName(b) \o "'")

\* the names of the positional parameters of a def
Params(f) ==
    IF f.code \in {"foo", "bar"} THEN << "a", "b" >>
    ELSE IF f.code = "lambda" THEN << "x", "y" >>
    ELSE << "n" >>

\* the position of the parameter called name, 0 when there is none
Position(names, name) ==
    IF \E j \in DOMAIN names : names[j] = name
    THEN CHOOSE j \in DOMAIN names : names[j] = name
    ELSE 0

\* binding the arguments of a call to the n parameters of a def, n being 1
\* or 2: the positional arguments fill the first parameters, then each
\* keyword is matched, in the order written, to a parameter that is still
\* empty; then the number of positional arguments is checked, then that no
\* parameter is left empty.  The TypeError raised, or "".
bind(f, n, args, kwargs) ==
    LET given == Len(args)
        names == Params(f)
        pos(i) == Position(names, kwargs[i][1])
        bad == {i \in DOMAIN kwargs : pos(i) = 0 \/ pos(i) <= given}
        first == CHOOSE i \in bad : \A j \in bad : i <= j
        empty == {j \in 1..n : j > given /\ \A i \in DOMAIN kwargs : pos(i) # j}
        quoted(j) == "'" \o names[j] \o "'"
        missing == IF Cardinality(empty) = 2
                   THEN "2 required positional arguments: "
                            \o quoted(1) \o " and " \o quoted(2)
                   ELSE "1 required positional argument: "
                            \o quoted(CHOOSE j \in empty : TRUE)
    IN  IF bad # {}
        THEN IF pos(first) = 0
             THEN "TypeError: " \o f.__name__
                      \o "() got an unexpected keyword argument '"
                      \o kwargs[first][1] \o "'"
             ELSE "TypeError: " \o f.__name__
                      \o "() got multiple values for argument '"
                      \o kwargs[first][1] \o "'"
        ELSE IF given > n
        THEN "TypeError: " \o f.__name__ \o "() takes " \o ToString(n)
                 \o " positional argument" \o (IF n = 1 THEN "" ELSE "s")
                 \o " but " \o ToString(given) \o " were given"
        ELSE IF empty # {}
        THEN "TypeError: " \o f.__name__ \o "() missing " \o missing
        ELSE ""

\* the values of the n parameters of a def after a binding that succeeded
bound(f, n, args, kwargs) ==
    [j \in 1..n |->
        IF j <= Len(args) THEN args[j]
        ELSE kwargs[CHOOSE i \in DOMAIN kwargs :
                        Position(Params(f), kwargs[i][1]) = j][2]]

RECURSIVE Call(_, _, _, _)
RECURSIVE n_ary_func(_, _, _)

\* def foo(a, b): return a + b
foo_body(f, st, args, kwargs) ==
    LET e == bind(f, 2, args, kwargs)
        v == bound(f, 2, args, kwargs)
        s == [st EXCEPT !.binary = @ + 1]
    IN  IF e # "" THEN Raise(st, e) ELSE add(s, v[1], v[2])

\* def bar(a, b): return a * b
bar_body(f, st, args, kwargs) ==
    LET e == bind(f, 2, args, kwargs)
        v == bound(f, 2, args, kwargs)
        s == [st EXCEPT !.binary = @ + 1]
    IN  IF e # "" THEN Raise(st, e) ELSE mul(s, v[1], v[2])

\* a binary function given by a table
lambda_body(f, st, args, kwargs) ==
    LET e == bind(f, 2, args, kwargs)
        v == bound(f, 2, args, kwargs)
        s == [st EXCEPT !.binary = @ + 1]
    IN  IF e # "" THEN Raise(st, e)
        ELSE Return(s, Int_(f.func[v[1].val, v[2].val]))

\* def fib(n): return 1 if n <= 1 else fib(n-1) + fib(n-2)
\* where the name fib is the module's global, the decorated function
fib_body(f, st, args, kwargs) ==
    LET e == bind(f, 1, args, kwargs)
        n == bound(f, 1, args, kwargs)[1]
    IN  IF e # "" THEN Raise(st, e)
        ELSE IF n.kind # "int"
        THEN Raise(st, "TypeError: '<=' not supported between instances of '"
                           \o TypeName(n) \o "' and 'int'")
        ELSE IF n.val <= 1 THEN Return(st, Int_(1))
        ELSE LET r1 == Call(fib, st, << Int_(n.val - 1) >>, NoKw)
                 r2 == Call(fib, r1, << Int_(n.val - 2) >>, NoKw)
             IN  IF Raised(r1) THEN r1
                 ELSE IF Raised(r2) THEN r2
                 ELSE add(r2, r1.ret, r2.ret)

\* def callee(n): return n        (also plain)
callee_body(f, st, args, kwargs) ==
    LET e == bind(f, 1, args, kwargs)
        n == bound(f, 1, args, kwargs)[1]
    IN  IF e # "" THEN Raise(st, e) ELSE Return(st, n)

\* def caller(n): return callee(n) if n <= 0 else caller(n - 1)
\* where both names are the decorated functions
caller_body(f, st, args, kwargs) ==
    LET e == bind(f, 1, args, kwargs)
        n == bound(f, 1, args, kwargs)[1]
    IN  IF e # "" THEN Raise(st, e)
        ELSE IF n.kind # "int"
        THEN Raise(st, "TypeError: '<=' not supported between instances of '"
                           \o TypeName(n) \o "' and 'int'")
        ELSE IF n.val <= 0 THEN Call(callee, st, << n >>, NoKw)
        ELSE Call(caller, st, << Int_(n.val - 1) >>, NoKw)

\* def late(n): return t(plain)(n)
\* decorating plain sets t.depth to 0 while the call of late is in progress
late_body(f, st, args, kwargs) ==
    LET e == bind(f, 1, args, kwargs)
        n == bound(f, 1, args, kwargs)[1]
    IN  IF e # "" THEN Raise(st, e)
        ELSE Call(trace("t", Str("####"), plain_def), real_decorator(st, "t"),
                  << n >>, NoKw)

\* disable.wrapper
disable_wrapper(f, st, args, kwargs) == Call(f.func, st, args, kwargs)

\* decorator.wrapper
decorator_wrapper(f, st, args, kwargs) == Call(f.func, st, args, kwargs)

\* countcalls.wrapper with "wrapper.calls = +1" in place of "+= 1"
countcalls_wrapper_assign(f, st, args, kwargs) ==
    LET o == f.id
        s == [st EXCEPT !.invoked[o] = @ + 1]
        r == Call(f.func, s, args, kwargs)
    IN  IF Raised(r) THEN [r EXCEPT !.raised[o] = @ + 1]
        ELSE [r EXCEPT !.calls[o] = 1]

\* countcalls.wrapper
countcalls_wrapper(f, st, args, kwargs) ==
    LET o == f.id
        s == [st EXCEPT !.invoked[o] = @ + 1]
        r == Call(f.func, s, args, kwargs)
    IN  IF Raised(r) THEN [r EXCEPT !.raised[o] = @ + 1]
        ELSE [r EXCEPT !.calls[o] = @ + 1]

\* memo.wrapper with the test "if h not in wrapper.cache" left out
memo_wrapper_nostore(f, st, args, kwargs) ==
    LET o == f.id
        hr == hash(args)
        r == Call(f.func, st, args, kwargs)
        n == IF args \in DOMAIN r.runs[o] THEN r.runs[o][args] + 1 ELSE 1
        seen == args \in DOMAIN r.firsts[o]
    IN  IF hr.exc # "" THEN Raise(st, hr.exc)
        ELSE IF Raised(r) THEN r
        ELSE [r EXCEPT !.cache[o] = Put(@, hr.h, r.ret),
                       !.runs[o] = Put(@, args, n),
                       !.firsts[o] = IF seen THEN @ ELSE Put(@, args, r.ret),
                       !.same = @ /\ (seen => r.firsts[o][args] = r.ret)]

\* memo.wrapper with "h = hash(args[:1])": only the first argument is hashed
memo_wrapper_firstarg(f, st, args, kwargs) ==
    LET o == f.id
        hr == hash(args)
        h == IF Len(args) = 0 THEN hr.h ELSE << hr.h[1] >>
        r == Call(f.func, st, args, kwargs)
        n == IF args \in DOMAIN r.runs[o] THEN r.runs[o][args] + 1 ELSE 1
        stored == [r EXCEPT !.cache[o] = Put(@, h, r.ret),
                            !.runs[o] = Put(@, args, n)]
        out == IF h \in DOMAIN st.cache[o] THEN st ELSE stored
        result == out.cache[o][h]
        seen == args \in DOMAIN out.firsts[o]
    IN  IF hr.exc # "" THEN Raise(st, hr.exc)
        ELSE IF h \notin DOMAIN st.cache[o] /\ Raised(r) THEN r
        ELSE [out EXCEPT !.ret = result,
                         !.firsts[o] = IF seen THEN @ ELSE Put(@, args, result),
                         !.same = @ /\ (seen => out.firsts[o][args] = result)]

\* memo.wrapper that starts a new dict on each miss:
\* wrapper.cache = {h: func(*args, **kwargs)}
memo_wrapper_reset(f, st, args, kwargs) ==
    LET o == f.id
        hr == hash(args)
        h == hr.h
        r == Call(f.func, [st EXCEPT !.under = @ + 1], args, kwargs)
        stored == [r EXCEPT !.cache[o] = Put(EmptyDict, h, r.ret)]
        out == IF h \in DOMAIN st.cache[o] THEN st ELSE stored
    IN  IF hr.exc # "" THEN Raise(st, hr.exc)
        ELSE IF h \notin DOMAIN st.cache[o] /\ Raised(r)
        THEN [r EXCEPT !.underexc = r.exc]
        ELSE [out EXCEPT !.ret = out.cache[o][h]]

\* memo.wrapper that hashes the keyword arguments too:
\* h = hash(args + tuple(kwargs.values()))
memo_wrapper_kwkey(f, st, args, kwargs) ==
    LET o == f.id
        hr == hash(args \o [i \in DOMAIN kwargs |-> kwargs[i][2]])
        h == hr.h
        r == Call(f.func, [st EXCEPT !.under = @ + 1], args, kwargs)
        stored == [r EXCEPT !.cache[o] = Put(@, h, r.ret)]
        out == IF h \in DOMAIN st.cache[o] THEN st ELSE stored
    IN  IF hr.exc # "" THEN Raise(st, hr.exc)
        ELSE IF h \notin DOMAIN st.cache[o] /\ Raised(r)
        THEN [r EXCEPT !.underexc = r.exc]
        ELSE [out EXCEPT !.ret = out.cache[o][h]]

\* memo.wrapper
memo_wrapper(f, st, args, kwargs) ==
    LET o == f.id
        hr == hash(args)
        h == hr.h
        \* the miss: func runs, then its result is stored under h
        r == Call(f.func, [st EXCEPT !.under = @ + 1], args, kwargs)
        n == IF args \in DOMAIN r.runs[o] THEN r.runs[o][args] + 1 ELSE 1
        stored == [r EXCEPT !.cache[o] = Put(@, h, r.ret),
                            !.runs[o] = Put(@, args, n)]
        \* result = wrapper.cache[h]
        out == IF h \in DOMAIN st.cache[o] THEN st ELSE stored
        result == out.cache[o][h]
        seen == args \in DOMAIN out.firsts[o]
    IN  IF hr.exc # "" THEN Raise(st, hr.exc)
        ELSE IF h \notin DOMAIN st.cache[o] /\ Raised(r)
        THEN [r EXCEPT !.underexc = r.exc]
        ELSE [out EXCEPT !.ret = result,
                         !.firsts[o] = IF seen THEN @ ELSE Put(@, args, result),
                         !.same = @ /\ (seen => out.firsts[o][args] = result)]

\* n_ary_func that folds from the left: f(f(x1, x2), x3)
n_ary_func_left(function, st, sequence) ==
    IF Len(sequence) = 1 THEN Return(st, sequence[1])
    ELSE IF Len(sequence) >= 2
    THEN LET n == Len(sequence)
             inner == n_ary_func(function, st, SubSeq(sequence, 1, n - 1))
         IN  IF Raised(inner) THEN inner
             ELSE Call(function, inner, << inner.ret, sequence[n] >>, NoKw)
    ELSE Raise(st, "TypeError: " \o function.__name__ \o "() of empty sequence")

\* n_ary_func that returns None for an empty sequence
n_ary_func_lenient(function, st, sequence) ==
    IF Len(sequence) = 1 THEN Return(st, sequence[1])
    ELSE IF Len(sequence) >= 2
    THEN LET inner == n_ary_func(function, st, Tail(sequence))
         IN  IF Raised(inner) THEN inner
             ELSE Call(function, inner, << sequence[1], inner.ret >>, NoKw)
    ELSE Return(st, None)

\* n_ary_func whose recursion goes through the memo wrapper of the folding
\* function
n_ary_func_cached(function, st, sequence) ==
    IF Len(sequence) = 1 THEN Return(st, sequence[1])
    ELSE IF Len(sequence) >= 2
    THEN LET o == owner(function)
             held == IF o \in DOMAIN st.cache THEN st ELSE memo_init(st, o)
             inner == Call(memo(o, n_ary(function)), held, Tail(sequence),
                           NoKw)
         IN  IF Raised(inner) THEN inner
             ELSE Call(function, inner, << sequence[1], inner.ret >>, NoKw)
    ELSE Raise(st, "TypeError: " \o function.__name__ \o "() of empty sequence")

\* n_ary_func(function, sequence)
n_ary_func(function, st, sequence) ==
    IF Len(sequence) = 1 THEN Return(st, sequence[1])
    ELSE IF Len(sequence) >= 2
    THEN LET inner == n_ary_func(function, st, Tail(sequence))
         IN  IF Raised(inner) THEN inner
             ELSE Call(function, inner, << sequence[1], inner.ret >>, NoKw)
    ELSE Raise(st, "TypeError: " \o function.__name__ \o "() of empty sequence")

\* n_ary.wrapper, def wrapper(*args)
n_ary_wrapper(f, st, args, kwargs) ==
    IF Len(kwargs) > 0
    THEN Raise(st, "TypeError: " \o f.__name__
                       \o "() got an unexpected keyword argument '"
                       \o kwargs[1][1] \o "'")
    ELSE n_ary_func(f.func, st, args)

\* trace.real_decorator.wrapper.  The arguments of print are evaluated from
\* left to right: indent * real_decorator.depth, which raises for an indent
\* that cannot be multiplied by an int, before the % format, which takes
\* exactly one argument; the formatted text is kept as its two parts, the
\* name and the argument.
trace_wrapper(f, st, args, kwargs) ==
    LET o == owner(f)
        d == f.id
        begun == [st EXCEPT !.traced = @ + 1]
        margin == mul(begun, f.indent, Int_(st.depth[d]))
        entered == print(begun, << margin.ret, Str("-->"), Str(f.__name__),
                                   args[1] >>)
        s == [entered EXCEPT !.depth[d] = @ + 1, !.active = @ + 1,
                             !.ownnest = Append(@, st.own[o]),
                             !.own[o] = @ + 1, !.forwarded = @ + 1]
        r == Call(f.func, s, args, kwargs)
        t == [r EXCEPT !.depth[d] = @ - 1, !.active = @ - 1, !.own[o] = @ - 1,
                       !.ownnest = Append(@, r.own[o] - 1),
                       !.steady = @ /\ r.depth[d] = s.depth[d]]
    IN  IF Raised(margin) THEN margin
        ELSE IF Len(args) = 0
        THEN Raise(begun, "TypeError: not enough arguments for format string")
        ELSE IF Len(args) > 1
        THEN Raise(begun, "TypeError: not all arguments converted during string formatting")
        ELSE IF Raised(r) THEN [r EXCEPT !.active = @ - 1, !.own[o] = @ - 1]
        ELSE Return(print(t, << mul(t, f.indent, Int_(t.depth[d])).ret,
                                Str("<--"), Str(f.__name__), args[1],
                                r.ret >>),
                    r.ret)

\* f(*args, **kwargs) in state st
Call(f, st, args, kwargs) ==
    CASE f.code = "foo" -> foo_body(f, st, args, kwargs)
      [] f.code = "bar" -> bar_body(f, st, args, kwargs)
      [] f.code = "fib" -> fib_body(f, st, args, kwargs)
      [] f.code = "lambda" -> lambda_body(f, st, args, kwargs)
      [] f.code \in {"callee", "plain"} -> callee_body(f, st, args, kwargs)
      [] f.code = "caller" -> caller_body(f, st, args, kwargs)
      [] f.code = "late" -> late_body(f, st, args, kwargs)
      [] f.code = "disable.wrapper" -> disable_wrapper(f, st, args, kwargs)
      [] f.code = "decorator.wrapper" -> decorator_wrapper(f, st, args, kwargs)
      [] f.code = "countcalls.wrapper" -> countcalls_wrapper(f, st, args, kwargs)
      [] f.code = "memo.wrapper" -> memo_wrapper(f, st, args, kwargs)
      [] f.code = "n_ary.wrapper" -> n_ary_wrapper(f, st, args, kwargs)
      [] f.code = "trace.wrapper" -> trace_wrapper(f, st, args, kwargs)


(***************************************************************************)
(* The state of the module.  pc is "import" when the module was imported   *)
(* by a client, and otherwise the line of main() that runs next.           *)
(***************************************************************************)
VARIABLES cache, calls, depth, stdout, pc, ncalls, last,
          invoked, raised, runs, firsts, same, nest, obj, fold,
          failed, ownnest, steady

vars == << cache, calls, depth, stdout, pc, ncalls, last,
           invoked, raised, runs, firsts, same, nest, obj, fold,
           failed, ownnest, steady >>

Names == {"foo", "bar", "fib"}

Tuples(S, n) == UNION {[1..k -> S] : k \in 0..n}

NoCall == [fn |-> "", args |-> << >>, kwargs |-> NoKw, ret |-> None,
           exc |-> "", binary |-> 0, traced |-> 0, forwarded |-> 0,
           under |-> 0, underexc |-> ""]

NoFold == [function |-> foo_def, sequence |-> << >>, done |-> FALSE,
           ret |-> None, exc |-> "", binary |-> 0]

\* the machine state a call starts from
State ==
    [cache |-> cache, calls |-> calls, depth |-> depth, stdout |-> stdout,
     ret |-> None, exc |-> "", invoked |-> invoked, raised |-> raised,
     runs |-> runs, firsts |-> firsts, same |-> same, active |-> 0,
     nest |-> nest, binary |-> 0, traced |-> 0, forwarded |-> 0,
     own |-> [o \in Defs |-> 0], ownnest |-> ownnest, steady |-> steady,
     under |-> 0, underexc |-> ""]

\* the machine state of the module right after it is loaded, for evaluating
\* a function on its own
Fresh ==
    [cache |-> [o \in Names |-> EmptyDict],
     calls |-> [o \in Names |-> 0],
     depth |-> [d \in {"fib"} |-> 0], stdout |-> << >>, ret |-> None,
     exc |-> "",
     invoked |-> [o \in Names |-> 0],
     raised |-> [o \in Names |-> 0],
     runs |-> [o \in Names |-> EmptyDict],
     firsts |-> [o \in Names |-> EmptyDict],
     same |-> TRUE, active |-> 0, nest |-> << >>, binary |-> 0,
     traced |-> 0, forwarded |-> 0, own |-> [o \in Defs |-> 0],
     ownnest |-> << >>, steady |-> TRUE, under |-> 0, underexc |-> ""]

\* the module's state after the call that ended in machine state r
Store(r) ==
    /\ cache' = r.cache
    /\ calls' = r.calls
    /\ depth' = r.depth
    /\ stdout' = r.stdout
    /\ invoked' = r.invoked
    /\ raised' = r.raised
    /\ runs' = r.runs
    /\ firsts' = r.firsts
    /\ same' = r.same
    /\ nest' = r.nest
    /\ ownnest' = r.ownnest
    /\ steady' = r.steady

Record(fn, args, kwargs, r) ==
    last' = [fn |-> fn, args |-> args, kwargs |-> kwargs, ret |-> r.ret,
             exc |-> r.exc, binary |-> r.binary, traced |-> r.traced,
             forwarded |-> r.forwarded, under |-> r.under,
             underexc |-> r.underexc]

\* the module right after it is loaded: the decorators have run (lines
\* 44, 65, 113), nothing was called
Loaded ==
    /\ cache = [o \in Names |-> EmptyDict]
    /\ calls = [o \in Names |-> 0]
    /\ stdout = << >>
    /\ ncalls = 0
    /\ last = NoCall
    /\ invoked = [o \in Names |-> 0]
    /\ raised = [o \in Names |-> 0]
    /\ runs = [o \in Names |-> EmptyDict]
    /\ firsts = [o \in Names |-> EmptyDict]
    /\ same = TRUE
    /\ nest = << >>
    /\ failed = {}
    /\ ownnest = << >>
    /\ steady = TRUE

\* the values and the binary functions that n_ary is tried on by itself
Bits == {0, 1}

Tables == [Bits \X Bits -> Bits]

Folds ==
    [function : {lambda(t) : t \in Tables} \cup {foo_def, bar_def},
     sequence : Tuples({Int_(b) : b \in Bits}, MaxSeq),
     done : {FALSE}, ret : {None}, exc : {""}, binary : {0}]

\* The module is run as a script, and main() starts at line 155; or it is
\* imported by a client, who then calls foo, bar and fib ("import"), calls
\* foo again and again ("retry"), folds a binary function with n_ary
\* ("n_ary"), stacks the wrapping utilities on one of the module's plain
\* functions ("decorate"), or decorates functions of its own with one
\* trace("####") object and calls them ("trace").
Init ==
    /\ Loaded
    /\ \/ pc \in {"155", "import", "retry"}
             /\ obj = foo_def /\ fold = NoFold
             /\ depth = [d \in {"fib"} |-> 0]
       \/ pc = "trace" /\ obj = foo_def /\ fold = NoFold
                       /\ depth = [d \in {"fib", "t"} |-> 0]
       \/ pc = "n_ary" /\ obj = foo_def /\ fold \in Folds
                       /\ depth = [d \in {"fib"} |-> 0]
       \/ pc = "decorate" /\ obj \in {foo_def, bar_def, fib_def}
                          /\ fold = NoFold
                          /\ depth = [d \in {"fib"} |-> 0]

(***************************************************************************)
(* main(), one statement per step.                                         *)
(***************************************************************************)
MainLines == {"155", "157", "158", "159", "161", "162", "163", "164",
              "166", "167", "168"}

NextLine(l) ==
    CASE l = "155" -> "157" [] l = "157" -> "158" [] l = "158" -> "159"
      [] l = "159" -> "161" [] l = "161" -> "162" [] l = "162" -> "163"
      [] l = "163" -> "164" [] l = "164" -> "166" [] l = "166" -> "167"
      [] l = "167" -> "168" [] l = "168" -> "return"

\* the call a line of main() makes, if any
MainCalls == {"155", "157", "158", "161", "162", "163", "167"}

MainFn(l) ==
    IF l \in {"155", "157", "158"} THEN foo
    ELSE IF l \in {"161", "162", "163"} THEN bar ELSE fib

MainArgs(l) ==
    CASE l \in {"155", "158", "161"} -> << Int_(4), Int_(3) >>
      [] l \in {"157", "162"} -> << Int_(4), Int_(3), Int_(2) >>
      [] l = "163" -> << Int_(4), Int_(3), Int_(2), Int_(1) >>
      [] l = "167" -> << Int_(3) >>

main ==
    /\ pc \in MainLines
    /\ LET r == IF pc \in MainCalls
                THEN Call(MainFn(pc), State, MainArgs(pc), NoKw)
                ELSE State
           line == CASE pc \in MainCalls -> << r.ret >>
                     [] pc = "159" -> << Str("foo was called"),
                                         Int_(calls["foo"]), Str("times") >>
                     [] pc = "164" -> << Str("bar was called"),
                                         Int_(calls["bar"]), Str("times") >>
                     [] pc = "166" -> << Str("__doc__="), fib.__doc__ >>
                     [] pc = "168" -> << Int_(calls["fib"]),
                                         Str("calls made") >>
       IN  /\ IF Raised(r) \/ pc = "167" THEN Store(r)
              ELSE Store(print(r, line))
           /\ pc' = IF Raised(r) THEN "error" ELSE NextLine(pc)
           /\ IF pc \in MainCalls
              THEN Record(owner(MainFn(pc)), MainArgs(pc), NoKw, r)
              ELSE UNCHANGED last
    /\ UNCHANGED << ncalls, obj, fold, failed >>

(***************************************************************************)
(* A client that imported the module calls foo, bar and fib.               *)
(***************************************************************************)
Vals == {Int_(-2), Int_(-1), Int_(3)}

ArgTuples == Tuples(Vals, MaxArgs)

FibArgs == {<< Int_(n) >> : n \in 0..MaxN}
               \cup {<< EmptyList >>, << >>, << Int_(1), Int_(2) >>}

Kwargs == {NoKw, << << "k", Int_(1) >> >>}

call(f, args, kwargs) ==
    /\ ncalls < MaxCalls
    /\ LET r == Call(f, State, args, kwargs)
       IN  Store(r) /\ Record(owner(f), args, kwargs, r)
    /\ ncalls' = ncalls + 1
    /\ UNCHANGED << pc, obj, fold, failed >>

call_foo ==
    /\ pc = "import"
    /\ \E args \in ArgTuples, kwargs \in Kwargs : call(foo, args, kwargs)

\* bar is wrapped exactly as foo is; a keyword argument is tried on foo and
\* on fib
call_bar ==
    /\ pc = "import"
    /\ \E args \in ArgTuples : call(bar, args, NoKw)

call_fib ==
    /\ pc = "import"
    /\ \E args \in FibArgs, kwargs \in Kwargs : call(fib, args, kwargs)

(***************************************************************************)
(* A client calls foo again and again, with short argument tuples; failed  *)
(* holds the <<args, kwargs>> of its calls for which the function under    *)
(* foo's memo wrapper raised (kept for stating the properties).            *)
(***************************************************************************)
ShortTuples == Tuples(Vals, ShortArgs)

retry_foo ==
    /\ pc = "retry"
    /\ ncalls < LongCalls
    /\ \E args \in ShortTuples, kwargs \in Kwargs :
           LET r == Call(foo, State, args, kwargs)
           IN  /\ Store(r)
               /\ Record("foo", args, kwargs, r)
               /\ failed' = IF r.underexc # ""
                             THEN failed \cup {<< args, kwargs >>}
                             ELSE failed
    /\ ncalls' = ncalls + 1
    /\ UNCHANGED << pc, obj, fold >>

(***************************************************************************)
(* A client decorates callee, caller and late with one trace("####")       *)
(* object, whose depth is 0 after the last decoration, and calls them.     *)
(***************************************************************************)
TraceArgs == {<< Int_(n) >> : n \in 0..MaxN}

call_traced(f, args) ==
    /\ ncalls < MaxCalls
    /\ LET r == Call(f, State, args, NoKw)
       IN  Store(r) /\ Record(owner(f), args, NoKw, r)
    /\ ncalls' = ncalls + 1
    /\ UNCHANGED << pc, obj, fold, failed >>

call_callee ==
    /\ pc = "trace"
    /\ \E args \in TraceArgs : call_traced(callee, args)

call_caller ==
    /\ pc = "trace"
    /\ \E args \in TraceArgs : call_traced(caller, args)

call_late ==
    /\ pc = "trace"
    /\ \E args \in TraceArgs : call_traced(late, args)

(***************************************************************************)
(* A client folds an argument list with the n_ary wrapper of a binary      *)
(* function.                                                               *)
(***************************************************************************)
call_n_ary ==
    /\ pc = "n_ary"
    /\ ~fold.done
    /\ LET r == Call(n_ary(fold.function), Fresh, fold.sequence, NoKw)
       IN  fold' = [fold EXCEPT !.done = TRUE, !.ret = r.ret, !.exc = r.exc,
                                !.binary = r.binary]
    /\ UNCHANGED << cache, calls, depth, stdout, pc, ncalls, last, invoked,
                    raised, runs, firsts, same, nest, obj, failed, ownnest,
                    steady >>

(***************************************************************************)
(* A client stacks wrapping utilities on a function.                       *)
(***************************************************************************)
RECURSIVE Height(_)
Height(f) == IF IsDef(f) THEN 0 ELSE 1 + Height(f.func)

\* the wrapper object that the next decoration of obj makes
NewId == "w" \o ToString(Height(obj) + 1)

\* obj = <decorator>(obj), which leaves the module in machine state r
apply(wrapper, r) ==
    /\ Height(obj) < MaxStack
    /\ obj' = wrapper
    /\ Store(r)
    /\ UNCHANGED << pc, ncalls, last, fold, failed >>

apply_disable ==
    /\ pc = "decorate"
    /\ apply(disable(obj), State)

apply_decorator ==
    /\ pc = "decorate"
    /\ apply(decorator(obj), State)

apply_countcalls ==
    /\ pc = "decorate"
    /\ apply(countcalls(NewId, obj), countcalls_init(State, NewId))

apply_memo ==
    /\ pc = "decorate"
    /\ apply(memo(NewId, obj), memo_init(State, NewId))

apply_n_ary ==
    /\ pc = "decorate"
    /\ apply(n_ary(obj), State)

\* obj = trace("####")(obj), with a trace object of its own
apply_trace ==
    /\ pc = "decorate"
    /\ apply(trace(NewId, Str("####"), obj), real_decorator(State, NewId))

Next ==
    \/ main
    \/ call_foo
    \/ call_bar
    \/ call_fib
    \/ retry_foo
    \/ call_callee
    \/ call_caller
    \/ call_late
    \/ call_n_ary
    \/ apply_disable
    \/ apply_decorator
    \/ apply_countcalls
    \/ apply_memo
    \/ apply_n_ary
    \/ apply_trace

Spec == Init /\ [][Next]_vars


(***************************************************************************)
(* Properties.                                                             *)
(***************************************************************************)
TypeOK ==
    /\ \A d \in DOMAIN depth : depth[d] \in Int
    /\ \A o \in DOMAIN calls : calls[o] \in Nat
    /\ ncalls \in 0..(MaxCalls + LongCalls)
    /\ pc \in MainLines \cup {"return", "error", "import", "retry", "trace",
                              "n_ary", "decorate"}

\* the n-th Fibonacci number as fib defines it
RECURSIVE fibonacci(_)
fibonacci(n) == IF n <= 1 THEN 1 ELSE fibonacci(n - 1) + fibonacci(n - 2)

\* what the function under the memo wrapper of fn returns for args, computed
\* without any cache
Plain(fn, args) ==
    IF fn = "foo" THEN Call(n_ary(foo_def), Fresh, args, NoKw).ret
    ELSE IF fn = "bar" THEN Call(n_ary(bar_def), Fresh, args, NoKw).ret
    ELSE Int_(fibonacci(args[1].val))

\* C1: after any earlier calls, a call of a memo wrapper that returns,
\* returns f(args) for its own argument tuple, also when another tuple with
\* the same hash was called before.
C1_memo_returns_f_of_args ==
    (last.fn \in Names /\ last.kwargs = NoKw /\ last.exc = "")
        => last.ret = Plain(last.fn, last.args)

\* C2: the function under a memo wrapper runs to completion at most once
\* per argument tuple, and every call of the wrapper returns what its first
\* call with the same argument tuple returned.
C2_memo_runs_f_once ==
    /\ same
    /\ \A o \in Names : \A a \in DOMAIN runs[o] : runs[o][a] <= 1

\* two calls of bar with the same two arguments; the second ran no multiplication
C2_witness ==
    /\ ncalls = 2
    /\ calls["bar"] = 2
    /\ Cardinality(DOMAIN firsts["bar"]) = 1
    /\ Len(last.args) = 2
    /\ last.binary = 0

\* function(a, b)
Apply(function, a, b) == Call(function, Fresh, << a, b >>, NoKw).ret

\* the right fold, computed from the right end: acc = xn, then
\* acc = f(x(i), acc) for i = n-1 down to 1
RECURSIVE FoldFrom(_, _, _, _)
FoldFrom(function, seq, i, acc) ==
    IF i = 0 THEN acc
    ELSE FoldFrom(function, seq, i - 1, Apply(function, seq[i], acc))

FoldRight(function, seq) ==
    FoldFrom(function, seq, Len(seq) - 1, seq[Len(seq)])

\* C3: for n >= 1 arguments the n_ary wrapper returns the right fold of f
\* and runs f exactly n-1 times: x1 for n = 1, f(x1, x2) for n = 2,
\* f(x1, wrapper(x2..xn)) for n >= 3.
C3_n_ary_is_right_fold ==
    (fold.done /\ Len(fold.sequence) >= 1) =>
        LET f == fold.function
            x == fold.sequence
            n == Len(x)
        IN  /\ fold.exc = ""
            /\ fold.ret = FoldRight(f, x)
            /\ fold.binary = n - 1
            /\ n = 1 => fold.ret = x[1]
            /\ n = 2 => fold.ret = Apply(f, x[1], x[2])
            /\ n >= 3 => fold.ret =
                   Apply(f, x[1], Call(n_ary(f), Fresh, Tail(x), NoKw).ret)

\* three arguments folded by a function whose left fold differs
C3_witness ==
    /\ fold.done
    /\ Len(fold.sequence) = 3
    /\ fold.binary = 2
    /\ fold.ret # Apply(fold.function,
                        Apply(fold.function, fold.sequence[1], fold.sequence[2]),
                        fold.sequence[3])

\* C4: a call of an n_ary wrapper with no arguments runs the binary
\* function not once and raises the TypeError that names the wrapped
\* function, also when it is made through the wrappers of foo and bar.
C4_no_arguments_is_a_TypeError ==
    /\ (fold.done /\ fold.sequence = << >>) =>
           /\ fold.binary = 0
           /\ fold.exc = "TypeError: " \o fold.function.__name__
                             \o "() of empty sequence"
    /\ (last.fn \in {"foo", "bar"} /\ last.args = << >>) =>
           /\ last.binary = 0
           /\ last.kwargs = NoKw =>
                  last.exc = "TypeError: " \o last.fn \o "() of empty sequence"
           /\ last.kwargs # NoKw =>
                  last.exc = "TypeError: " \o last.fn
                                 \o "() got an unexpected keyword argument 'k'"

\* bar() was called
C4_witness ==
    /\ last.fn = "bar"
    /\ last.args = << >>
    /\ last.kwargs = NoKw
    /\ last.exc = "TypeError: bar() of empty sequence"
    /\ calls["bar"] = 0

\* the lines of stdout printed by the trace wrapper
IsTrace(line) == Len(line) >= 4

\* the lines printed when fib's trace wrapper is entered
Entering ==
    SelectSeq(stdout, LAMBDA line : /\ IsTrace(line)
                                    /\ line[2] = Str("-->")
                                    /\ line[3] = Str("fib"))

\* C5: fib.calls counts every invocation of fib, the recursive ones and
\* those answered from the cache included: as long as no invocation raised,
\* it equals the number of invocations, which is 5 after main()'s fib(3) and
\* 1, 1, 3, 5, ... after a first call fib(0), fib(1), fib(2), fib(3), ...
C5_fib_counts_every_invocation ==
    /\ raised["fib"] = 0 =>
           /\ calls["fib"] = invoked["fib"]
           /\ calls["fib"] = Len(Entering)
    /\ pc = "168" => calls["fib"] = 5
    /\ (ncalls = 1 /\ last.fn = "fib" /\ last.exc = "") =>
           calls["fib"] = IF last.args[1].val <= 1 THEN 1
                          ELSE 2 * last.args[1].val - 1

\* main() has returned from fib(3), two of the five invocations were
\* recursive calls of fib(1), the second answered from the cache
C5_witness ==
    /\ pc = "168"
    /\ calls["fib"] = 5
    /\ Cardinality(DOMAIN cache["fib"]) = 4

\* C6 as the specification states it: foo(4,3), foo(4,3,2), foo(4,3) return
\* 7, 9, 7 and the counter advances on the first and the second call only.
C6_counter_skips_repeated_call ==
    pc = "159" =>
        /\ stdout = << << Int_(7) >>, << Int_(9) >>, << Int_(7) >> >>
        /\ calls["foo"] = 2

\* C6, amended: foo(4,3), foo(4,3,2), foo(4,3) on a fresh module return
\* 7, 9, 7, and the counter advances by one on each of the three calls, the
\* repeated foo(4,3) included.
C6_counter_advances_on_every_call ==
    /\ pc = "157" => stdout = << << Int_(7) >> >> /\ calls["foo"] = 1
    /\ pc = "158" =>
           /\ stdout = << << Int_(7) >>, << Int_(9) >> >>
           /\ calls["foo"] = 2
    /\ pc = "159" =>
           /\ stdout = << << Int_(7) >>, << Int_(9) >>, << Int_(7) >> >>
           /\ calls["foo"] = 3

\* main() has made its three calls of foo, the third was answered from the
\* cache
C6_witness ==
    /\ pc = "159"
    /\ Cardinality(DOMAIN cache["foo"]) = 2
    /\ last.args = << Int_(4), Int_(3) >>
    /\ last.binary = 0

\* C7: the counter of a countcalls wrapper equals the number of its
\* invocations that have ended, by a return or by an exception.
C7_counter_counts_ended_invocations ==
    \A o \in Names : calls[o] = invoked[o]

\* C8: the depth unwinds, whether the traced call returns or raises: when
\* no traced call is active, which is so between any two steps, the depth of
\* the module's trace object is 0.
C8_depth_unwinds == depth["fib"] = 0

\* <<arrow, argument, depth>> of the trace lines
Events ==
    LET lines == SelectSeq(stdout, IsTrace)
    IN  [i \in DOMAIN lines |->
            << lines[i][2].text, lines[i][4].val, Len(lines[i][1].text) \div 4 >>]

\* C9: every line of fib's trace wrapper is indented by the number of
\* enclosing active calls through the wrapper, and fib(3) prints
\* enter 3, enter 2, enter 1, exit 1, enter 0, exit 0, exit 2, enter 1,
\* exit 1, exit 3 at depths 0, 1, 2, 2, 2, 2, 1, 1, 1, 0.
C9_trace_lines_nest ==
    /\ pc # "trace" =>
           \A i \in DOMAIN stdout :
               IsTrace(stdout[i]) =>
                   stdout[i][1] = Repeat(Str("####"), nest[i])
    /\ pc = "168" =>
           Events = << << "-->", 3, 0 >>, << "-->", 2, 1 >>, << "-->", 1, 2 >>,
                       << "<--", 1, 2 >>, << "-->", 0, 2 >>, << "<--", 0, 2 >>,
                       << "<--", 2, 1 >>, << "-->", 1, 1 >>, << "<--", 1, 1 >>,
                       << "<--", 3, 0 >> >>

\* every wrapper in the stack f carries the name and the docstring of the
\* function it wraps
RECURSIVE Preserved(_)
Preserved(f) ==
    \/ IsDef(f)
    \/ /\ f.__name__ = f.func.__name__
       /\ f.__doc__ = f.func.__doc__
       /\ Preserved(f.func)

\* C10: each wrapping utility gives its wrapper the name and the docstring
\* of the function it wraps, through any stack; fib reports the name "fib"
\* and the docstring "Some doc", which main() prints.
C10_wrappers_keep_name_and_doc ==
    /\ Preserved(obj)
    /\ obj.__name__ = owner(obj)
    /\ fib.__name__ = "fib"
    /\ fib.__doc__ = Str("Some doc")
    /\ pc = "167" =>
           stdout[Len(stdout)] = << Str("__doc__="), Str("Some doc") >>

\* the stack of fib was built: memo, trace, countcalls on def fib
C10_witness ==
    /\ pc = "decorate"
    /\ obj = countcalls("w3", trace("w2", Str("####"), memo("w1", fib_def)))
    /\ Height(obj) = 3

\* C11: every invocation of a trace wrapper, with zero, one or several
\* positional arguments, calls the wrapped function once: in each call the
\* trace wrappers made as many calls of their wrapped functions as they
\* were invoked.
C11_trace_forwards_every_call == last.traced = last.forwarded

\* C12: the cache of a memo wrapper only grows: no step removes an entry or
\* changes the value stored under a key.
C12_cache_only_grows ==
    [][\A o \in Names : \A h \in DOMAIN cache[o] :
           h \in DOMAIN cache'[o] /\ cache'[o][h] = cache[o][h]]_vars

\* a third call of foo was answered from a cache that holds two entries
C12_witness ==
    /\ pc = "retry"
    /\ ncalls >= 3
    /\ Cardinality(DOMAIN cache["foo"]) >= 2
    /\ last.exc = ""
    /\ last.under = 0

\* a step that calls one of the module's functions
Called == ncalls' # ncalls \/ (pc \in MainCalls /\ pc' # pc)

\* C13: when the function under a memo wrapper raises, the call raises the
\* same exception and leaves the cache as it was, and every later call of
\* the retrying client with the same positional and keyword arguments calls
\* the function under the memo wrapper again.
C13_failed_call_is_retried ==
    [][(Called /\ last'.fn \in Names) =>
           /\ last'.underexc # "" =>
                  last'.exc = last'.underexc /\ cache' = cache
           /\ << last'.args, last'.kwargs >> \in failed =>
                  last'.under >= 1]_vars

\* C14: with callee, caller and late decorated by one trace object, every
\* trace line is indented by the number of calls in progress of the wrapper
\* that prints it, and a wrapped function that returns leaves the depth as
\* its wrapper saw it before the call.
C14_depth_is_per_wrapper ==
    pc = "trace" =>
        /\ steady
        /\ LET lines == SelectSeq(stdout, IsTrace)
           IN  \A i \in DOMAIN lines :
                   lines[i][1] = Repeat(Str("####"), ownnest[i])

\* C15: keyword arguments take no part in the cache key: a call whose
\* positional arguments hash to a key of the cache returns the value stored
\* under it, whatever its keyword arguments, and does not call the function
\* under the memo wrapper.
C15_kwargs_not_in_key ==
    [][(Called /\ last'.fn \in Names /\ hash(last'.args).exc = ""
               /\ hash(last'.args).h \in DOMAIN cache[last'.fn]) =>
           /\ last'.exc = ""
           /\ last'.ret = cache[last'.fn][hash(last'.args).h]
           /\ last'.under = 0]_vars

\* foo(*args, k=1) returned an int: foo accepts no keyword, so the value
\* came from the entry that foo(*args) had stored
C15_witness ==
    /\ last.fn = "foo"
    /\ last.kwargs # NoKw
    /\ last.exc = ""
    /\ last.ret.kind = "int"
    /\ last.under = 0

\* C16: under the memo wrapper of foo and bar the fold does not go through
\* the cache: a miss on n arguments that returns runs the binary function
\* n - 1 times and adds the key of the full argument tuple and no other;
\* main()'s foo(4, 3), foo(4, 3, 2), foo(4, 3) run the addition 1, 2 and 0
\* times, three in all, and leave two entries.
C16_fold_bypasses_cache ==
    [][/\ (Called /\ last'.fn \in {"foo", "bar"} /\ last'.exc = ""
               /\ hash(last'.args).h \notin DOMAIN cache[last'.fn]) =>
           /\ last'.binary = Len(last'.args) - 1
           /\ DOMAIN cache'[last'.fn] =
                  DOMAIN cache[last'.fn] \cup {hash(last'.args).h}
       /\ (pc = "155" /\ pc' = "157") => last'.binary = 1
       /\ (pc = "157" /\ pc' = "158") => last'.binary = 2
       /\ (pc = "158" /\ pc' = "159") =>
           /\ last'.binary = 0
           /\ Cardinality(DOMAIN cache'["foo"]) = 2]_vars

\* main() is back from foo(4, 3, 2): a miss on three arguments, two
\* additions, and the second entry of the cache
C16_witness ==
    /\ pc = "158"
    /\ last.args = << Int_(4), Int_(3), Int_(2) >>
    /\ last.binary = 2
    /\ Cardinality(DOMAIN cache["foo"]) = 2

====
